---- MODULE Spec2Model ----
(***************************************************************************)
(* Model of the tld-parser read path: domain-key derivation                *)
(* (name_record_handler.rs, utils.rs, pda.rs), record decoding             *)
(* (state/*.rs) and the TldParser calls of lib.rs that fetch and           *)
(* post-process name records.                                              *)
(*                                                                         *)
(* Byte strings, Rust strings and public keys are sequences of one-token   *)
(* strings.  A public key is a bracketed token sequence Key(body); sha256  *)
(* and the program-derived-address search are free (injective)             *)
(* constructors over the concatenation of their input bytes.               *)
(***************************************************************************)
EXTENDS Integers, Sequences, FiniteSets, TLC

\* ------------------------------------------------------------------ bounds
\* largest number of labels of an input domain string
MaxLabels == 5
\* the wall clock reads 0..MaxNow
MaxNow == 2

\* ------------------------------------------------------- byte-level values
Key(body) == <<"<">> \o body \o <<">">>

RECURSIVE Concat(_)
Concat(seqs) ==
    IF seqs = <<>> THEN <<>> ELSE Head(seqs) \o Concat(Tail(seqs))

\* Option<&Pubkey>::None
None == <<"None">>

\* Pubkey::default(): 32 zero bytes
DefaultPubkey == Key(<<"00000000000000000000000000000000">>)

unwrap_or_default(opt) == IF opt = None THEN DefaultPubkey ELSE opt

\* ---------------------------------------------------- constants.rs
PREFIX == <<"t","l","d","_","h","o","u","s","e">>
NAME_HOUSE_PREFIX == <<"n","a","m","e","_","h","o","u","s","e">>
NFT_RECORD_PREFIX == <<"n","f","t","_","r","e","c","o","r","d">>
ANS_PROGRAM_ID == Key(<<"ALTNSZ46uaAUU7XUV6awvdorLGqAsPwa9shm7h4uP2FK">>)
TLD_HOUSE_PROGRAM_ID == Key(<<"TLDHkysf5pCnKsVA4gXpNvmy7psXLPEu4LAdDJthT9S">>)
ORIGIN_TLD_KEY == Key(<<"3mX9b4AZaQehNoQGfckVcmgmA6bkBoFcbLj9RMmMyNcU">>)
NAME_HOUSE_PROGRAM_ID == Key(<<"NH3uX6FtVE2fNREAioP7hm5RaozotZxeL6khU1EHx51">>)
HASH_PREFIX == <<"A","L","T"," ","N","a","m","e"," ","S","e","r","v","i","c","e">>

\* solana_sdk::hash::hashv over the concatenated input slices
hashv(slices) == <<"sha256(">> \o Concat(slices) \o <<")">>

\* Pubkey::find_program_address: the address found for the concatenated
\* seeds under program_id (the bump is not modelled)
find_program_address(seeds, program_id) ==
    Key(<<"pda">> \o program_id \o Concat(seeds))

\* ---------------------------------------------------- utils.rs
get_hashed_name(name) == hashv(<<HASH_PREFIX \o name>>)

get_name_service_seeds_from_hashed_name(hashed_name, name_class_opt, name_parent_opt) ==
    << hashed_name,
       unwrap_or_default(name_class_opt),
       unwrap_or_default(name_parent_opt) >>

get_name_service_seeds_from_name(name, name_class_opt, name_parent_opt) ==
    << get_hashed_name(name),
       unwrap_or_default(name_class_opt),
       unwrap_or_default(name_parent_opt) >>

get_name_parent_from_tld(tld) ==
    find_program_address(
        get_name_service_seeds_from_hashed_name(
            get_hashed_name(tld), None, ORIGIN_TLD_KEY),
        ANS_PROGRAM_ID)

\* ---------------------------------------------------- pda.rs
find_tld_house(tld) ==
    find_program_address(<<PREFIX, tld>>, TLD_HOUSE_PROGRAM_ID)

find_name_house(tld_house) ==
    find_program_address(<<NAME_HOUSE_PREFIX, tld_house>>, NAME_HOUSE_PROGRAM_ID)

find_nft_record(name_account, name_house_account) ==
    find_program_address(
        <<NFT_RECORD_PREFIX, name_house_account, name_account>>,
        NAME_HOUSE_PROGRAM_ID)

find_name_account_from_hashed_name(hashed_name, name_class_opt, name_parent_opt) ==
    find_program_address(
        get_name_service_seeds_from_hashed_name(
            hashed_name, name_class_opt, name_parent_opt),
        ANS_PROGRAM_ID)

find_name_account_from_name(name, name_class_opt, name_parent_opt) ==
    find_program_address(
        get_name_service_seeds_from_name(name, name_class_opt, name_parent_opt),
        ANS_PROGRAM_ID)

\* ---------------------------------------------------- strings
\* str::split('.') : the labels between the dots, empty ones included
RECURSIVE SplitAcc(_, _, _, _)
SplitAcc(s, i, cur, out) ==
    IF i > Len(s) THEN Append(out, cur)
    ELSE IF s[i] = "." THEN SplitAcc(s, i + 1, <<>>, Append(out, cur))
    ELSE SplitAcc(s, i + 1, Append(cur, s[i]), out)

split(s) == SplitAcc(s, 1, <<>>, <<>>)

\* format!("{}.{}", a, b)
dotted(a, b) == a \o <<".">> \o b

RECURSIVE Join(_)
Join(labels) ==
    IF Len(labels) = 1 THEN labels[1]
    ELSE dotted(labels[1], Join(Tail(labels)))

\* ---------------------------------------------------- name_record_handler.rs
\* outcomes of a call: Ok(value), Err(msg) or a panic with msg
Ok(v) == [status |-> "ok", value |-> v, msg |-> ""]
Err(m) == [status |-> "err", value |-> <<>>, msg |-> m]
Panic(m) == [status |-> "panic", value |-> <<>>, msg |-> m]

DEPTH_PANIC == "Invalid derivation input, found more than 4 level subdomain"
INDEX_PANIC == "index out of bounds"

\* _get_name_account with the parent absent: rooted under ORIGIN_TLD_KEY
get_name_account_parentless_mut(name) ==
    [ pubkey |-> find_name_account_from_hashed_name(get_hashed_name(name), None, None),
      hashed |-> get_hashed_name(name) ]

get_name_account_parentless(name) ==
    [ pubkey |-> find_name_account_from_hashed_name(
                     get_hashed_name(name), None, ORIGIN_TLD_KEY),
      hashed |-> get_hashed_name(name) ]

_get_name_account_mut(name, parent) == get_name_account_parentless(name)

_get_name_account(name, parent) ==
    IF parent = None
    THEN get_name_account_parentless(name)
    ELSE [ pubkey |-> find_name_account_from_hashed_name(
                          get_hashed_name(name), None, parent),
           hashed |-> get_hashed_name(name) ]

\* let prefix = if record { "1" } else { "0" }; format!("{}{}", prefix, sub_domain)
sub_name_mut(record, sub_domain) == <<"0">> \o sub_domain

sub_name(record, sub_domain) ==
    (IF record THEN <<"1">> ELSE <<"0">>) \o sub_domain

\* format!("\0{}", sub_domain)
sub_key_name_mut(sub_domain) == <<"0">> \o sub_domain

sub_key_name(sub_domain) == <<"NUL">> \o sub_domain

\* format!("{}{}", record_prefix, multi_level_sub_domain) with record_prefix = "1"
sub_record_name(multi_level_sub_domain) == <<"1">> \o multi_level_sub_domain

\* the last arm of the if chain: domain_tld_split.len() > 4
too_deep_mut(n) == n > 5

too_deep(n) == n > 4

\* get_domain_key: the call's outcome, and with it the suffix key (the local
\* parent_key / parent_key_domain_account) the derivation went through
get_domain_key(domain_tld, record) ==
    LET domain_tld_split == split(domain_tld)
        n == Len(domain_tld_split)
    IN  IF n = 3 THEN
            LET tld == <<".">> \o domain_tld_split[3]
                domain == domain_tld_split[2]
                sub_domain == domain_tld_split[1]
                parent_key == _get_name_account(tld, None).pubkey
                domain_key == _get_name_account(domain, parent_key).pubkey
                sub == sub_name(record, sub_domain)
                leaf == _get_name_account(sub, domain_key)
            IN  [ res |-> Ok([ pubkey |-> leaf.pubkey,
                               hashed |-> leaf.hashed,
                               is_sub |-> TRUE,
                               parent |-> domain_key,
                               is_sub_record |-> FALSE ]),
                  parent_key |-> parent_key ]
        ELSE IF n = 4 /\ record THEN
            LET tld == <<".">> \o domain_tld_split[4]
                domain == domain_tld_split[3]
                sub_domain == domain_tld_split[2]
                multi_level_sub_domain == domain_tld_split[1]
                parent_key == _get_name_account(tld, None).pubkey
                domain_key == _get_name_account(domain, parent_key).pubkey
                sub_key == _get_name_account(sub_key_name(sub_domain), domain_key).pubkey
                leaf == _get_name_account(
                            sub_record_name(multi_level_sub_domain), sub_key)
            IN  [ res |-> Ok([ pubkey |-> leaf.pubkey,
                               hashed |-> leaf.hashed,
                               is_sub |-> TRUE,
                               parent |-> domain_key,
                               is_sub_record |-> TRUE ]),
                  parent_key |-> parent_key ]
        ELSE IF too_deep(n) THEN
            [ res |-> Panic(DEPTH_PANIC), parent_key |-> None ]
        ELSE IF n < 2 THEN
            \* domain_tld_split[1] on a one-element Vec
            [ res |-> Panic(INDEX_PANIC), parent_key |-> None ]
        ELSE
            LET tld_name == <<".">> \o domain_tld_split[2]
                parent_key_domain_account == _get_name_account(tld_name, None).pubkey
                domain == domain_tld_split[1]
                leaf == _get_name_account(domain, parent_key_domain_account)
            IN  [ res |-> Ok([ pubkey |-> leaf.pubkey,
                               hashed |-> leaf.hashed,
                               is_sub |-> FALSE,
                               parent |-> None,
                               is_sub_record |-> FALSE ]),
                  parent_key |-> parent_key_domain_account ]

\* ---------------------------------------------------- types/records.rs
Records == {"Url", "IPFS", "ARWV", "SHDW"}

get_record_string(record) ==
    CASE record = "IPFS" -> <<"I","P","F","S">>
      [] record = "ARWV" -> <<"A","R","W","V">>
      [] record = "Url"  -> <<"u","r","l">>
      [] record = "SHDW" -> <<"S","H","D","W">>

\* ---------------------------------------------------- state/name_record_header.rs
\* Account data is a record: len is the byte length of the data, the other
\* fields are the values at the fixed offsets (they mean nothing past len).
\* A name account: parent_name at 8..40, owner at 40..72, nclass at 72..104,
\* expires_at (u64 LE) at 104..112, valid_byte at 112, then a u32 length
\* prefix and the payload from NameRecordHeader::LEN on.

\* NameRecordHeader::LEN = 8 + size_of::<NameRecordHeader>() + 80
NAME_RECORD_LEN == 8 + 112 + 80

\* borsh for bool: 0 is false, 1 is true, anything else an error
deserialize_name_record(src) ==
    IF src.len < 8 THEN Panic("range start index 8 out of range for slice")
    ELSE IF src.len < 8 + 32 + 32 + 32 + 8 + 1 THEN Err("Unexpected length of input")
    ELSE IF src.valid_byte \notin {0, 1} THEN Err("Invalid bool representation")
    ELSE Ok([ parent_name |-> src.parent_name,
              owner |-> src.owner,
              nclass |-> src.nclass,
              expires_at |-> src.expires_at,
              is_valid |-> (src.valid_byte = 1) ])

deserialize_data_string(src) ==
    IF src.len < NAME_RECORD_LEN THEN Panic("range start index 200 out of range for slice")
    ELSE IF src.len < NAME_RECORD_LEN + 4 THEN Panic("range end index 4 out of range for slice")
    ELSE IF src.len < NAME_RECORD_LEN + 4 + src.data_len
         THEN Panic("range end index out of range for slice")
    ELSE Ok(SubSeq(src.payload, 1, src.data_len))

\* ---------------------------------------------------- state/nft_record.rs
\* A wrap-record account: tag at 8, bump at 9, name_account at 10..42, owner
\* at 42..74, nft_mint_account at 74..106, tld_house at 106..138.
from_account_info(data_vec) ==
    IF data_vec.len < 8 THEN Panic("range start index 8 out of range for slice")
    ELSE IF data_vec.len < 8 + 1 + 1 + 32 + 32 + 32 + 32 THEN Err("Unexpected length of input")
    ELSE IF data_vec.tag \notin {0, 1, 2} THEN Err("Unexpected variant index")
    ELSE Ok([ tag |-> data_vec.tag,
              bump |-> data_vec.bump,
              name_account |-> data_vec.name_account,
              owner |-> data_vec.owner,
              nft_mint_account |-> data_vec.nft_mint_account,
              tld_house |-> data_vec.tld_house ])

\* ---------------------------------------------------- spl_token_2022
\* StateWithExtensions::<Account>::unpack: Account::LEN bytes at least, and an
\* initialized account state; .base.owner is the owner at 32..64
TOKEN_ACCOUNT_LEN == 165

unpack(ata_data) ==
    IF ata_data.len < TOKEN_ACCOUNT_LEN THEN Err("InvalidAccountData")
    ELSE IF ata_data.state = 0 THEN Err("UninitializedAccount")
    ELSE Ok([ base |-> [ mint |-> ata_data.mint, owner |-> ata_data.owner ] ])

\* ---------------------------------------------------- the ledger reader
\* RpcClient::get_account_data: the bytes at the address, or an error
get_account_data(accounts, key) ==
    IF key \in DOMAIN accounts THEN Ok(accounts[key]) ELSE Err("AccountNotFound")

\* the largest holders of a mint, largest first, or an error for an address
\* that is no mint
get_token_largest_accounts(largest, mint) ==
    IF mint \in DOMAIN largest THEN Ok(largest[mint]) ELSE Err("not a Token mint")

\* ---------------------------------------------------- lib.rs
\* grace period  = 45 days * 24 hours * 60 minutes * 60 seconds
grace_period == 45 * 24 * 60 * 60

\* get_owner_from_domain_tld, after decoding: the validity rule
owner_validity_mut(name_account, time_now) ==
    IF name_account.expires_at > 0
    THEN IF time_now + grace_period >= name_account.expires_at
         THEN [name_account EXCEPT !.is_valid = FALSE, !.owner = DefaultPubkey]
         ELSE [name_account EXCEPT !.is_valid = TRUE]
    ELSE name_account

owner_validity(name_account, time_now) ==
    IF name_account.expires_at > 0
    THEN IF time_now + grace_period > name_account.expires_at
         THEN [name_account EXCEPT !.is_valid = FALSE, !.owner = DefaultPubkey]
         ELSE [name_account EXCEPT !.is_valid = TRUE]
    ELSE name_account

\* get_name_record_from_domain_tld and get_name_record_from_name_account,
\* after decoding
name_record_validity(name_account, time_now) ==
    IF name_account.expires_at > 0
    THEN IF time_now + grace_period > name_account.expires_at
         THEN [name_account EXCEPT !.is_valid = TRUE]
         ELSE name_account
    ELSE name_account

\* response.value.first().unwrap().address
first_holder(holders) == holders[1]

\* ---------------------------------------------------- the ledger
User1 == Key(<<"user1">>)
User2 == Key(<<"user2">>)
User3 == Key(<<"user3">>)
Mint1 == Key(<<"mint1">>)
Ata1 == Key(<<"ata1">>)
Ata2 == Key(<<"ata2">>)

Labels == { <<"a">>, <<"b">> }

\* the registered domain a.b, at the addresses the name service gives it
RegTld == <<".", "b">>
RegTldKey ==
    find_program_address(
        <<get_hashed_name(RegTld), DefaultPubkey, ORIGIN_TLD_KEY>>, ANS_PROGRAM_ID)
RegNameKey ==
    find_program_address(
        <<get_hashed_name(<<"a">>), DefaultPubkey, RegTldKey>>, ANS_PROGRAM_ID)
RegWrapKey ==
    find_program_address(
        << NFT_RECORD_PREFIX,
           find_program_address(
               << NAME_HOUSE_PREFIX,
                  find_program_address(<<PREFIX, RegTld>>, TLD_HOUSE_PROGRAM_ID) >>,
               NAME_HOUSE_PROGRAM_ID),
           RegNameKey >>,
        NAME_HOUSE_PROGRAM_ID)
\* its url record, url.a.b: the label "1url" under a.b
RegUrlKey ==
    find_program_address(
        <<get_hashed_name(<<"1","u","r","l">>), DefaultPubkey, RegNameKey>>,
        ANS_PROGRAM_ID)

NameData(len, owner, expires_at, valid_byte) ==
    [ len |-> len, parent_name |-> RegTldKey, owner |-> owner,
      nclass |-> DefaultPubkey, expires_at |-> expires_at,
      valid_byte |-> valid_byte, data_len |-> 0, payload |-> <<>> ]

\* what the ledger may hold at the address of a.b: a full name account, or
\* data too short to decode
NameAccounts ==
    { NameData(NAME_RECORD_LEN, o, e, v) :
        o \in {User1, RegWrapKey}, e \in {0, grace_period + 1}, v \in {0, 1, 2} }
    \cup { NameData(4, User1, 0, 0), NameData(64, User1, 0, 0) }

UrlData ==
    [ len |-> NAME_RECORD_LEN + 4 + 3, parent_name |-> RegNameKey, owner |-> User1,
      nclass |-> DefaultPubkey, expires_at |-> 0, valid_byte |-> 0,
      data_len |-> 1, payload |-> <<"x", "NUL", "NUL">> ]

WrapData(len) ==
    [ len |-> len, tag |-> 1, bump |-> 255, name_account |-> RegNameKey,
      owner |-> User1, nft_mint_account |-> Mint1,
      tld_house |-> find_program_address(<<PREFIX, RegTld>>, TLD_HOUSE_PROGRAM_ID) ]

TokenData(len, owner) ==
    [ len |-> len, mint |-> Mint1, owner |-> owner, state |-> 1 ]

\* the wrap side of the ledger: the accounts behind the wrap record of a.b and
\* the holders of its mint
Empty == [k \in {} |-> <<>>]
WrapSides ==
    << [accounts |-> Empty, largest |-> Empty],
      [accounts |-> (RegWrapKey :> WrapData(40)), largest |-> Empty],
      [accounts |-> (RegWrapKey :> WrapData(202)), largest |-> Empty],
      [accounts |-> (RegWrapKey :> WrapData(202)), largest |-> (Mint1 :> <<>>)],
      [accounts |-> (RegWrapKey :> WrapData(202)), largest |-> (Mint1 :> <<Ata1>>)],
      [accounts |-> (RegWrapKey :> WrapData(202)) @@ (Ata1 :> TokenData(10, User2)),
       largest |-> (Mint1 :> <<Ata1>>)],
      [accounts |-> (RegWrapKey :> WrapData(202)) @@ (Ata1 :> TokenData(165, User2)),
       largest |-> (Mint1 :> <<Ata1>>)],
      [accounts |-> (RegWrapKey :> WrapData(202)) @@ (Ata1 :> TokenData(165, User2))
                    @@ (Ata2 :> TokenData(165, User3)),
       largest |-> (Mint1 :> <<Ata1, Ata2>>)] >>

\* ---------------------------------------------------- inputs
RECURSIVE LabelSeqs(_)
LabelSeqs(n) ==
    IF n = 1 THEN { <<l>> : l \in Labels }
    ELSE { <<l>> \o ls : l \in Labels, ls \in LabelSeqs(n - 1) }

DomainInputs == UNION { { Join(ls) : ls \in LabelSeqs(n) } : n \in 1..MaxLabels }

AccountInputs == { RegNameKey, RegUrlKey, User1 }

\* ---------------------------------------------------- state
VARIABLES
    accounts,   \* the ledger: address -> account data
    largest,    \* the ledger: mint -> its holders' token accounts, largest first
    call,       \* the call in progress: its name and arguments
    pc,         \* where the call stands: "idle", an await point, or "done"
    loc,        \* the call's local variables
    fetches,    \* the ledger-reader requests the call has issued, in order
    ret,        \* the call's outcome, once pc = "done"
    parked,     \* a second call, suspended at an await while this one runs
    alone,      \* the outcome of a call that ran with no other call about
    mixed,      \* two calls have been in progress together
    hist        \* the owners of a.b in the ledger states a call has spanned

vars == <<accounts, largest, call, pc, loc, fetches, ret, parked, alone, mixed, hist>>

\* what a step of the running call leaves alone besides the ledger
aside == <<parked, alone, mixed, hist>>

ZeroHeader ==
    [ parent_name |-> DefaultPubkey, owner |-> DefaultPubkey, nclass |-> DefaultPubkey,
      expires_at |-> 0, is_valid |-> FALSE ]

NoLocals ==
    [ tld |-> <<>>,
      parent_name_account |-> None,
      name_account_key |-> None,
      stored |-> ZeroHeader,        \* the header as decoded
      name_account |-> ZeroHeader,  \* the header after the validity rule
      decoded |-> FALSE,
      clock_read |-> FALSE,
      time_now |-> 0,
      nft_record_key |-> None,
      wrapped |-> FALSE,
      nft_mint_account |-> None,
      associated_token_account |-> None,
      unpacked |-> FALSE,           \* the holder's token account was decoded
      pubkey |-> None,
      name_parent |-> ZeroHeader,   \* the parent record as decoded
      reverse_lookup_key |-> None ]

NoCall == [op |-> "idle"]
NoRet == [status |-> "none", value |-> <<>>, msg |-> ""]

Request(kind, key) == [kind |-> kind, key |-> key]

\* SystemTime::now() is read only when expires_at > 0
ClockReads(header) == IF header.expires_at > 0 THEN 0..MaxNow ELSE {0}

\* a call as it is suspended: all that is its own
Suspended(c, p, l, f, r) ==
    [call |-> c, pc |-> p, loc |-> l, fetches |-> f, ret |-> r]
NoParked == Suspended(NoCall, "idle", NoLocals, <<>>, NoRet)
NoAlone == [call |-> NoCall, time_now |-> 0, fetches |-> <<>>, ret |-> NoRet]

AsideInit ==
    /\ parked = NoParked
    /\ alone = NoAlone
    /\ mixed = FALSE
    /\ hist = {}

Init ==
    /\ \E i \in 1..Len(WrapSides) :
         /\ largest = WrapSides[i].largest
         /\ \/ accounts = WrapSides[i].accounts @@ (RegUrlKey :> UrlData)
            \/ \E nd \in NameAccounts :
                 accounts = WrapSides[i].accounts @@ (RegUrlKey :> UrlData)
                            @@ (RegNameKey :> nd)
    /\ call = NoCall
    /\ pc = "idle"
    /\ loc = NoLocals
    /\ fetches = <<>>
    /\ ret = NoRet
    /\ AsideInit

Finish(r) ==
    /\ pc' = "done"
    /\ ret' = r

\* a thrown outcome with the status and message of r
Rethrow(r) == [status |-> r.status, value |-> <<>>, msg |-> r.msg]

\* ---- name_record_handler.rs: get_domain_key
GetDomainKey(domain_tld, record) ==
    /\ pc = "idle"
    /\ call' = [op |-> "get_domain_key", domain_tld |-> domain_tld, record |-> record]
    /\ LET r == get_domain_key(domain_tld, record)
       IN  /\ loc' = [NoLocals EXCEPT !.parent_name_account = r.parent_key]
           /\ Finish(r.res)
    /\ UNCHANGED <<accounts, largest, aside, fetches>>

\* ---- utils.rs: get_name_parent_from_tld
GetNameParentFromTld(tld) ==
    /\ pc = "idle"
    /\ call' = [op |-> "get_name_parent_from_tld", tld |-> tld]
    /\ Finish(Ok(get_name_parent_from_tld(tld)))
    /\ UNCHANGED <<accounts, largest, aside, loc, fetches>>

\* ---- lib.rs: get_owner_from_domain_tld
\* if owner == nft_record_key
is_wrapped_mut(owner, nft_record_key) == owner = owner

is_wrapped(owner, nft_record_key) == owner = nft_record_key

\* up to the first await that follows the name record: derive the address,
\* fetch and decode the record, apply the validity rule, test for the wrap
GetOwnerFromDomainTld(domain_tld) ==
    /\ pc = "idle"
    /\ call' = [op |-> "get_owner_from_domain_tld", domain_tld |-> domain_tld]
    /\ UNCHANGED <<accounts, largest, aside>>
    /\ LET domain_tld_split == split(domain_tld)
       IN  IF Len(domain_tld_split) < 2
           THEN /\ Finish(Panic(INDEX_PANIC))
                /\ UNCHANGED <<loc, fetches>>
           ELSE
             LET domain == domain_tld_split[1]
                 tld == <<".">> \o domain_tld_split[2]
                 parent_name_account == get_name_parent_from_tld(tld)
                 name_account_key ==
                     find_name_account_from_name(domain, None, parent_name_account)
                 data == get_account_data(accounts, name_account_key)
                 dec == deserialize_name_record(data.value)
                 l0 == [NoLocals EXCEPT !.tld = tld,
                                        !.parent_name_account = parent_name_account,
                                        !.name_account_key = name_account_key]
             IN  /\ fetches' = <<Request("get_account_data", name_account_key)>>
                 /\ IF data.status # "ok"
                    THEN Finish(Rethrow(data)) /\ loc' = l0
                    ELSE IF dec.status # "ok"
                    THEN Finish(Rethrow(dec)) /\ loc' = l0
                    ELSE \E t \in ClockReads(dec.value) :
                      LET name_account == owner_validity(dec.value, t)
                          owner == name_account.owner
                          tld_house_key == find_tld_house(tld)
                          name_house_key == find_name_house(tld_house_key)
                          nft_record_key == find_nft_record(name_account_key, name_house_key)
                          w == is_wrapped(owner, nft_record_key)
                      IN  /\ loc' = [l0 EXCEPT !.stored = dec.value,
                                               !.name_account = name_account,
                                               !.decoded = TRUE,
                                               !.clock_read = (dec.value.expires_at > 0),
                                               !.time_now = t,
                                               !.nft_record_key = nft_record_key,
                                               !.wrapped = w]
                          /\ IF w
                             THEN pc' = "owner_nft_record" /\ ret' = NoRet
                             ELSE Finish(Ok(owner))

\* the wrap record arrives
OwnerNftRecord ==
    /\ pc = "owner_nft_record"
    /\ fetches' = Append(fetches, Request("get_account_data", loc.nft_record_key))
    /\ UNCHANGED <<accounts, largest, aside, call>>
    /\ LET data == get_account_data(accounts, loc.nft_record_key)
           nft_record == from_account_info(data.value)
       IN  IF data.status # "ok"
           THEN Finish(Rethrow(data)) /\ UNCHANGED loc
           ELSE IF nft_record.status # "ok"
           THEN Finish(Rethrow(nft_record)) /\ UNCHANGED loc
           ELSE /\ loc' = [loc EXCEPT !.nft_mint_account = nft_record.value.nft_mint_account]
                /\ pc' = "owner_largest"
                /\ UNCHANGED ret

\* the largest holders of the mint arrive
OwnerLargest ==
    /\ pc = "owner_largest"
    /\ fetches' = Append(fetches,
                         Request("get_token_largest_accounts", loc.nft_mint_account))
    /\ UNCHANGED <<accounts, largest, aside, call>>
    /\ LET response == get_token_largest_accounts(largest, loc.nft_mint_account)
       IN  IF response.status # "ok"
           THEN Finish(Rethrow(response)) /\ UNCHANGED loc
           ELSE IF response.value = <<>>
           THEN /\ Finish(Panic("called Option::unwrap() on a None value"))
                /\ UNCHANGED loc
           ELSE /\ loc' = [loc EXCEPT
                             !.associated_token_account = first_holder(response.value)]
                /\ pc' = "owner_token_account"
                /\ UNCHANGED ret

\* the holder's token account arrives
OwnerTokenAccount ==
    /\ pc = "owner_token_account"
    /\ fetches' = Append(fetches,
                         Request("get_account_data", loc.associated_token_account))
    /\ UNCHANGED <<accounts, largest, aside, call>>
    /\ LET data == get_account_data(accounts, loc.associated_token_account)
           acc == unpack(data.value)
       IN  IF data.status # "ok"
           THEN Finish(Rethrow(data)) /\ UNCHANGED loc
           ELSE IF acc.status = "ok"
           THEN /\ loc' = [loc EXCEPT !.unpacked = TRUE]
                /\ Finish(Ok(acc.value.base.owner))
           ELSE /\ UNCHANGED loc
                /\ Finish(Ok(loc.name_account.owner))

\* ---- lib.rs: get_name_record_from_domain_tld
GetNameRecordFromDomainTld(domain_tld) ==
    /\ pc = "idle"
    /\ call' = [op |-> "get_name_record_from_domain_tld", domain_tld |-> domain_tld]
    /\ UNCHANGED <<accounts, largest, aside>>
    /\ LET domain_tld_split == split(domain_tld)
       IN  IF Len(domain_tld_split) < 2
           THEN /\ Finish(Panic(INDEX_PANIC))
                /\ UNCHANGED <<loc, fetches>>
           ELSE
             LET domain == domain_tld_split[1]
                 tld == <<".">> \o domain_tld_split[2]
                 parent_name_account == get_name_parent_from_tld(tld)
                 name_account_key ==
                     find_name_account_from_name(domain, None, parent_name_account)
                 data == get_account_data(accounts, name_account_key)
                 dec == deserialize_name_record(data.value)
                 l0 == [NoLocals EXCEPT !.tld = tld,
                                        !.parent_name_account = parent_name_account,
                                        !.name_account_key = name_account_key]
             IN  /\ fetches' = <<Request("get_account_data", name_account_key)>>
                 /\ IF data.status # "ok"
                    THEN Finish(Rethrow(data)) /\ loc' = l0
                    ELSE IF dec.status # "ok"
                    THEN Finish(Rethrow(dec)) /\ loc' = l0
                    ELSE \E t \in ClockReads(dec.value) :
                      LET name_account == name_record_validity(dec.value, t)
                      IN  /\ loc' = [l0 EXCEPT !.stored = dec.value,
                                               !.name_account = name_account,
                                               !.decoded = TRUE,
                                               !.clock_read = (dec.value.expires_at > 0),
                                               !.time_now = t]
                          /\ Finish(Ok(name_account))

\* ---- lib.rs: get_name_record_from_name_account
GetNameRecordFromNameAccount(key) ==
    /\ pc = "idle"
    /\ call' = [op |-> "get_name_record_from_name_account", name_account |-> key]
    /\ UNCHANGED <<accounts, largest, aside>>
    /\ fetches' = <<Request("get_account_data", key)>>
    /\ LET data == get_account_data(accounts, key)
           dec == deserialize_name_record(data.value)
           l0 == [NoLocals EXCEPT !.name_account_key = key]
       IN  IF data.status # "ok"
           THEN Finish(Rethrow(data)) /\ loc' = l0
           ELSE IF dec.status # "ok"
           THEN Finish(Rethrow(dec)) /\ loc' = l0
           ELSE \E t \in ClockReads(dec.value) :
             LET name_account == name_record_validity(dec.value, t)
             IN  /\ loc' = [l0 EXCEPT !.stored = dec.value,
                                      !.name_account = name_account,
                                      !.decoded = TRUE,
                                      !.clock_read = (dec.value.expires_at > 0),
                                      !.time_now = t]
                 /\ Finish(Ok(name_account))

\* ---- utils.rs: get_record
\* the domain key is resolved first; the fetch is a later step
GetRecord(domain_tld, record) ==
    /\ pc = "idle"
    /\ call' = [op |-> "get_record", domain_tld |-> domain_tld, record |-> record]
    /\ UNCHANGED <<accounts, largest, aside, fetches>>
    /\ LET r == get_domain_key(dotted(get_record_string(record), domain_tld), TRUE)
       IN  IF r.res.status # "ok"
           THEN Finish(Rethrow(r.res)) /\ UNCHANGED loc
           ELSE /\ loc' = [NoLocals EXCEPT !.pubkey = r.res.value.pubkey,
                                           !.parent_name_account = r.parent_key]
                /\ pc' = "record_fetch"
                /\ UNCHANGED ret

RecordFetch ==
    /\ pc = "record_fetch"
    /\ fetches' = Append(fetches, Request("get_account_data", loc.pubkey))
    /\ UNCHANGED <<accounts, largest, aside, call, loc>>
    /\ LET name_record == get_account_data(accounts, loc.pubkey)
           record_data == deserialize_data_string(name_record.value)
       IN  IF name_record.status # "ok"
           THEN Finish(Rethrow(name_record))
           ELSE IF record_data.status # "ok"
           THEN Finish(Rethrow(record_data))
           ELSE Finish(Ok(record_data.value))

\* ---- utils.rs: find_domain_name_records
\* the first of the four domain keys that fails ends the call
RECURSIVE first_failure(_)
first_failure(rs) ==
    IF rs = <<>> THEN Ok(<<>>)
    ELSE IF Head(rs).res.status # "ok" THEN Rethrow(Head(rs).res)
    ELSE first_failure(Tail(rs))

\* for value in name_record_account_infos.into_iter().flatten(): the first
\* account found that decodes is returned
RECURSIVE first_decoded(_, _)
first_decoded(accs, keys) ==
    IF keys = <<>> THEN Ok([some |-> FALSE, header |-> ZeroHeader])
    ELSE IF Head(keys) \notin DOMAIN accs THEN first_decoded(accs, Tail(keys))
    ELSE LET dec == deserialize_name_record(accs[Head(keys)])
         IN  IF dec.status = "ok" THEN Ok([some |-> TRUE, header |-> dec.value])
             ELSE IF dec.status = "panic" THEN dec
             ELSE first_decoded(accs, Tail(keys))

FindDomainNameRecords(domain_tld) ==
    /\ pc = "idle"
    /\ call' = [op |-> "find_domain_name_records", domain_tld |-> domain_tld]
    /\ UNCHANGED <<accounts, largest, aside, fetches>>
    /\ LET rs == [ i \in 1..4 |->
                     get_domain_key(
                         dotted(get_record_string(<<"Url", "IPFS", "ARWV", "SHDW">>[i]),
                                domain_tld),
                         TRUE) ]
           failed == first_failure(rs)
       IN  IF failed.status # "ok"
           THEN Finish(failed) /\ UNCHANGED loc
           ELSE /\ loc' = [NoLocals EXCEPT
                             !.pubkey = Concat([i \in 1..4 |-> rs[i].res.value.pubkey])]
                /\ pc' = "records_fetch"
                /\ UNCHANGED ret

RecordsFetch ==
    /\ pc = "records_fetch"
    /\ fetches' = Append(fetches, Request("get_multiple_accounts", loc.pubkey))
    /\ UNCHANGED <<accounts, largest, aside, call, loc>>
    /\ LET keys == [ i \in 1..4 |->
                       get_domain_key(
                           dotted(get_record_string(<<"Url", "IPFS", "ARWV", "SHDW">>[i]),
                                  call.domain_tld),
                           TRUE).res.value.pubkey ]
       IN  Finish(first_decoded(accounts, keys))

\* the caller takes the outcome; the next call starts from fresh locals
Return ==
    /\ pc = "done"
    /\ pc' = "idle"
    /\ call' = NoCall
    /\ loc' = NoLocals
    /\ fetches' = <<>>
    /\ ret' = NoRet
    /\ UNCHANGED <<accounts, largest, aside>>

Next ==
    \/ \E d \in DomainInputs, record \in BOOLEAN : GetDomainKey(d, record)
    \/ \E l \in Labels : GetNameParentFromTld(<<".">> \o l)
    \/ \E d \in DomainInputs : GetOwnerFromDomainTld(d)
    \/ OwnerNftRecord
    \/ OwnerLargest
    \/ OwnerTokenAccount
    \/ \E d \in DomainInputs : GetNameRecordFromDomainTld(d)
    \/ \E k \in AccountInputs : GetNameRecordFromNameAccount(k)
    \/ \E d \in DomainInputs, record \in Records : GetRecord(d, record)
    \/ RecordFetch
    \/ \E d \in DomainInputs : FindDomainNameRecords(d)
    \/ RecordsFetch
    \/ Return

Spec == Init /\ [][Next]_vars

\* ==================================================== reverse lookups
\* Pubkey::to_string: the base58 text of an address
to_string(pubkey) == <<"base58(">> \o pubkey \o <<")">>

\* std::str::from_utf8: the byte 0xFF occurs in no UTF-8 text
is_utf8(bytes) == \A i \in 1..Len(bytes) : bytes[i] # "0xFF"

\* str::trim_matches(char::from(0))
RECURSIVE trim_start(_)
trim_start(s) ==
    IF s # <<>> /\ Head(s) = "NUL" THEN trim_start(Tail(s)) ELSE s

RECURSIVE trim_end(_)
trim_end(s) ==
    IF s # <<>> /\ s[Len(s)] = "NUL" THEN trim_end(SubSeq(s, 1, Len(s) - 1)) ELSE s

trim_matches(s) == trim_end(trim_start(s))

\* ---- state/name_record_header.rs: deserialize_reverse_lookup_domain_name
\* A reverse-lookup account is a name account whose bytes from offset LEN
\* to the end of the buffer are the label: the field tail.
deserialize_reverse_lookup_domain_name(src) ==
    IF src.len < NAME_RECORD_LEN
    THEN Panic("slice index starts at 200 but ends before it")
    ELSE IF ~is_utf8(src.tail)
    THEN Panic("called Result::unwrap() on an Err value: Utf8Error")
    ELSE Ok(src.tail)

\* ---- lib.rs: reverse_lookup_name_account_with_known_name_class
reverse_lookup_key_mut(name_account, name_class) ==
    find_name_account_from_hashed_name(
        get_hashed_name(to_string(name_account)), None, name_class)

reverse_lookup_key(name_account, name_class) ==
    find_name_account_from_hashed_name(
        get_hashed_name(to_string(name_account)), name_class, None)

\* the call as a function of the ledger: it has one await
reverse_lookup_with_known_name_class(accs, name_account, parent_account_owner) ==
    LET reverse_lookup_data ==
            get_account_data(accs, reverse_lookup_key(name_account, parent_account_owner))
    IN  IF reverse_lookup_data.status # "ok"
        THEN Rethrow(reverse_lookup_data)
        ELSE deserialize_reverse_lookup_domain_name(reverse_lookup_data.value)

ReverseLookupNameAccountWithKnownNameClass(name_account, parent_account_owner) ==
    /\ pc = "idle"
    /\ call' = [op |-> "reverse_lookup_name_account_with_known_name_class",
                name_account |-> name_account,
                parent_account_owner |-> parent_account_owner]
    /\ UNCHANGED <<accounts, largest, aside>>
    /\ loc' = [NoLocals EXCEPT !.reverse_lookup_key =
                                   reverse_lookup_key(name_account, parent_account_owner)]
    /\ fetches' = <<Request("get_account_data",
                            reverse_lookup_key(name_account, parent_account_owner))>>
    /\ Finish(reverse_lookup_with_known_name_class(
                  accounts, name_account, parent_account_owner))

\* ---- lib.rs: get_tld_from_parent_account
\* A suffix-house account: the length of the suffix at 104..108, its bytes
\* from 108 on (the field tld holds the bytes from 108 to the end).
tld_len_start == 8 + 32 + 32 + 32
tld_len_end == 8 + 32 + 32 + 32 + 4

tld_of_house(tld_house_data) ==
    IF tld_house_data.len < tld_len_end
    THEN Panic("range end index 108 out of range for slice")
    ELSE IF tld_house_data.len < tld_len_end + tld_house_data.tld_len
    THEN Panic("range end index out of range for slice")
    ELSE IF ~is_utf8(SubSeq(tld_house_data.tld, 1, tld_house_data.tld_len))
    THEN Panic("called Result::unwrap() on an Err value: Utf8Error")
    ELSE Ok(trim_matches(SubSeq(tld_house_data.tld, 1, tld_house_data.tld_len)))

\* the parent record arrives
GetTldFromParentAccount(parent_account) ==
    /\ pc = "idle"
    /\ call' = [op |-> "get_tld_from_parent_account", parent_account |-> parent_account]
    /\ UNCHANGED <<accounts, largest, aside>>
    /\ fetches' = <<Request("get_account_data", parent_account)>>
    /\ LET name_parent_data == get_account_data(accounts, parent_account)
           name_parent == deserialize_name_record(name_parent_data.value)
       IN  IF name_parent_data.status # "ok"
           THEN Finish(Rethrow(name_parent_data)) /\ loc' = NoLocals
           ELSE IF name_parent.status # "ok"
           THEN Finish(Rethrow(name_parent)) /\ loc' = NoLocals
           ELSE /\ loc' = [NoLocals EXCEPT !.name_parent = name_parent.value]
                /\ pc' = "tld_house"
                /\ ret' = NoRet

\* the suffix-house account arrives: get_tld_from_parent_account returns, to
\* its caller or into reverse_lookup_name_account
TldHouseFetch ==
    /\ pc = "tld_house"
    /\ fetches' = Append(fetches, Request("get_account_data", loc.name_parent.owner))
    /\ UNCHANGED <<accounts, largest, aside, call>>
    /\ LET tld_house_data == get_account_data(accounts, loc.name_parent.owner)
           tld == tld_of_house(tld_house_data.value)
       IN  IF tld_house_data.status # "ok"
           THEN Finish(Rethrow(tld_house_data)) /\ UNCHANGED loc
           ELSE IF tld.status # "ok"
           THEN Finish(Rethrow(tld)) /\ UNCHANGED loc
           ELSE IF call.op = "get_tld_from_parent_account"
           THEN Finish(Ok(tld.value)) /\ loc' = [loc EXCEPT !.tld = tld.value]
           ELSE /\ loc' = [loc EXCEPT !.tld = tld.value]
                /\ pc' = "reverse_lookup"
                /\ UNCHANGED ret

\* ---- lib.rs: reverse_lookup_name_account
domain_len_start_mut == 200 + 1

domain_len_start == 200

\* from_utf8(&reverse_lookup_data[domain_len_start..domain_len_end]).unwrap()
domain_name_of(reverse_lookup_data) ==
    IF reverse_lookup_data.len < domain_len_start
    THEN Panic("slice index starts at 200 but ends before it")
    ELSE LET bytes == SubSeq(reverse_lookup_data.tail,
                             domain_len_start - NAME_RECORD_LEN + 1,
                             reverse_lookup_data.len - NAME_RECORD_LEN)
         IN  IF ~is_utf8(bytes)
             THEN Panic("called Result::unwrap() on an Err value: Utf8Error")
             ELSE Ok(bytes)

\* get_name_record_from_name_account(name_account) arrives
ReverseLookupNameAccount(name_account) ==
    /\ pc = "idle"
    /\ call' = [op |-> "reverse_lookup_name_account", name_account |-> name_account]
    /\ UNCHANGED <<accounts, largest, aside>>
    /\ fetches' = <<Request("get_account_data", name_account)>>
    /\ LET data == get_account_data(accounts, name_account)
           dec == deserialize_name_record(data.value)
           l0 == [NoLocals EXCEPT !.name_account_key = name_account]
       IN  IF data.status # "ok"
           THEN Finish(Rethrow(data)) /\ loc' = l0
           ELSE IF dec.status # "ok"
           THEN Finish(Rethrow(dec)) /\ loc' = l0
           ELSE \E t \in ClockReads(dec.value) :
                  /\ loc' = [l0 EXCEPT !.stored = dec.value,
                                       !.name_account =
                                           name_record_validity(dec.value, t),
                                       !.decoded = TRUE,
                                       !.clock_read = (dec.value.expires_at > 0),
                                       !.time_now = t]
                  /\ pc' = "reverse_parent"
                  /\ ret' = NoRet

\* get_tld_from_parent_account(&name_record_header.parent_name): the parent
\* record arrives
ReverseParentFetch ==
    /\ pc = "reverse_parent"
    /\ fetches' = Append(fetches,
                         Request("get_account_data", loc.name_account.parent_name))
    /\ UNCHANGED <<accounts, largest, aside, call>>
    /\ LET name_parent_data == get_account_data(accounts, loc.name_account.parent_name)
           name_parent == deserialize_name_record(name_parent_data.value)
       IN  IF name_parent_data.status # "ok"
           THEN Finish(Rethrow(name_parent_data)) /\ UNCHANGED loc
           ELSE IF name_parent.status # "ok"
           THEN Finish(Rethrow(name_parent)) /\ UNCHANGED loc
           ELSE /\ loc' = [loc EXCEPT !.name_parent = name_parent.value]
                /\ pc' = "tld_house"
                /\ UNCHANGED ret

\* the reverse-lookup account arrives
ReverseLookupFetch ==
    /\ pc = "reverse_lookup"
    /\ LET tld_house == find_tld_house(loc.tld)
           key == reverse_lookup_key(call.name_account, tld_house)
           reverse_lookup_data == get_account_data(accounts, key)
       IN  /\ fetches' = Append(fetches, Request("get_account_data", key))
           /\ loc' = [loc EXCEPT !.reverse_lookup_key = key]
           /\ IF reverse_lookup_data.status # "ok"
              THEN Finish(Rethrow(reverse_lookup_data))
              ELSE Finish(domain_name_of(reverse_lookup_data.value))
    /\ UNCHANGED <<accounts, largest, aside, call>>

\* ---- the ledger of the reverse lookups: a.b, its parent record, the house
\* of ".b" and the reverse-lookup account of a.b
RegHouseKey == find_program_address(<<PREFIX, RegTld>>, TLD_HOUSE_PROGRAM_ID)
RegReverseKey ==
    find_program_address(
        <<hashv(<<HASH_PREFIX \o to_string(RegNameKey)>>), RegHouseKey, DefaultPubkey>>,
        ANS_PROGRAM_ID)

TldRecordData(len, owner) ==
    [ len |-> len, parent_name |-> ORIGIN_TLD_KEY, owner |-> owner,
      nclass |-> DefaultPubkey, expires_at |-> 0, valid_byte |-> 0,
      data_len |-> 0, payload |-> <<>> ]

HouseData(len, tld_len, tld) == [len |-> len, tld_len |-> tld_len, tld |-> tld]

ReverseData(len, tail) ==
    [ len |-> len, parent_name |-> DefaultPubkey, owner |-> DefaultPubkey,
      nclass |-> RegHouseKey, expires_at |-> 0, valid_byte |-> 0, tail |-> tail ]

\* a record whose length prefix covers its NUL padding
UrlPadded == [UrlData EXCEPT !.data_len = 3]

NameSides ==
    << Empty,
       RegNameKey :> NameData(NAME_RECORD_LEN, User1, 0, 1),
       RegNameKey :> NameData(NAME_RECORD_LEN, User1, grace_period + 1, 0),
       RegNameKey :> NameData(NAME_RECORD_LEN, User1, 0, 2) >>

ParentSides ==
    << Empty,
       RegTldKey :> TldRecordData(NAME_RECORD_LEN, RegHouseKey),
       RegTldKey :> TldRecordData(NAME_RECORD_LEN, User2),
       RegTldKey :> TldRecordData(4, RegHouseKey) >>

HouseSides ==
    << RegHouseKey :> HouseData(tld_len_end + 2, 2, <<".", "b">>),
       RegHouseKey :> HouseData(tld_len_end + 4, 4, <<".", "b", "NUL", "NUL">>),
       RegHouseKey :> HouseData(100, 0, <<>>),
       RegHouseKey :> HouseData(tld_len_end + 2, 9, <<".", "b">>),
       RegHouseKey :> HouseData(tld_len_end + 2, 2, <<".", "0xFF">>),
       RegHouseKey :> HouseData(tld_len_end + 2, 2, <<".", "a">>) >>

ReverseSides ==
    << Empty,
       RegReverseKey :> ReverseData(NAME_RECORD_LEN + 1, <<"a">>),
       RegReverseKey :> ReverseData(NAME_RECORD_LEN + 3, <<"a", "NUL", "NUL">>),
       RegReverseKey :> ReverseData(150, <<>>),
       RegReverseKey :> ReverseData(NAME_RECORD_LEN + 1, <<"0xFF">>) >>

UrlSides == << RegUrlKey :> UrlData, RegUrlKey :> UrlPadded >>

LookupAccounts == { RegNameKey, User1 }
LookupClasses ==
    { RegHouseKey, find_program_address(<<PREFIX, <<".", "a">>>>, TLD_HOUSE_PROGRAM_ID) }
LookupParents == { RegTldKey, User1 }

InitLookup ==
    /\ \E n \in 1..Len(NameSides), p \in 1..Len(ParentSides), h \in 1..Len(HouseSides),
          r \in 1..Len(ReverseSides), u \in 1..Len(UrlSides) :
         accounts = NameSides[n] @@ ParentSides[p] @@ HouseSides[h]
                    @@ ReverseSides[r] @@ UrlSides[u]
    /\ largest = Empty
    /\ call = NoCall
    /\ pc = "idle"
    /\ loc = NoLocals
    /\ fetches = <<>>
    /\ ret = NoRet
    /\ AsideInit

NextLookup ==
    \/ \E a \in LookupAccounts, c \in LookupClasses :
         ReverseLookupNameAccountWithKnownNameClass(a, c)
    \/ \E p \in LookupParents : GetTldFromParentAccount(p)
    \/ TldHouseFetch
    \/ \E a \in LookupAccounts : ReverseLookupNameAccount(a)
    \/ ReverseParentFetch
    \/ ReverseLookupFetch
    \/ GetRecord(<<"a", ".", "b">>, "Url")
    \/ RecordFetch
    \/ Return

SpecLookup == InitLookup /\ [][NextLookup]_vars

\* ==================================================== the decoders alone
\* ---- state/main_domain.rs: deserialize_main_domain
\* A main-domain account: name_account at 8..40, then the two strings tld
\* and domain, each a u32 length followed by its bytes.
deserialize_main_domain(src) ==
    IF src.len < 8 THEN Panic("range start index 8 out of range for slice")
    ELSE IF src.len < 8 + 32 + 4 THEN Err("Unexpected length of input")
    ELSE IF src.len < 8 + 32 + 4 + src.tld_len THEN Err("Unexpected length of input")
    ELSE IF ~is_utf8(src.tld) THEN Err("invalid utf-8 sequence")
    ELSE IF src.len < 8 + 32 + 4 + src.tld_len + 4 THEN Err("Unexpected length of input")
    ELSE IF src.len < 8 + 32 + 4 + src.tld_len + 4 + src.domain_len
    THEN Err("Unexpected length of input")
    ELSE IF ~is_utf8(src.domain) THEN Err("invalid utf-8 sequence")
    ELSE Ok([ name_account |-> src.name_account,
              tld |-> src.tld,
              domain |-> src.domain ])

MainData(len, tld_len, domain_len) ==
    [ len |-> len, name_account |-> RegNameKey,
      tld_len |-> tld_len, tld |-> [i \in 1..tld_len |-> "t"],
      domain_len |-> domain_len, domain |-> [i \in 1..domain_len |-> "d"] ]

\* the byte slices handed to the decoders, by length and content
NameSlices ==
    { NameData(len, User1, e, v) :
        len \in {0, 4, 7, 8, 64, 112, 113, NAME_RECORD_LEN},
        e \in {0, grace_period + 1}, v \in {0, 1, 2} }
DataSlices ==
    { [NameData(len, User1, 0, 0) EXCEPT !.data_len = n, !.payload = <<"x", "y">>] :
        len \in {0, 7, 150, NAME_RECORD_LEN, NAME_RECORD_LEN + 2, NAME_RECORD_LEN + 4,
                 NAME_RECORD_LEN + 5, NAME_RECORD_LEN + 6},
        n \in {0, 1, 2} }
ReverseSlices ==
    { ReverseData(len, tail) :
        len \in {0, 7, 150, NAME_RECORD_LEN - 1},
        tail \in {<<>>} }
    \cup { ReverseData(NAME_RECORD_LEN + Len(tail), tail) :
             tail \in {<<>>, <<"a">>, <<"a", "NUL">>, <<"0xFF">>} }
WrapSlices ==
    { [WrapData(len) EXCEPT !.tag = tag] :
        len \in {0, 4, 7, 8, 40, 137, 138, 202}, tag \in {0, 1, 2, 3} }
MainSlices ==
    { MainData(len, tld_len, domain_len) :
        len \in {0, 7, 8, 40, 43, 44, 46, 48, 50, 52},
        tld_len \in {0, 2}, domain_len \in {0, 2} }

DeserializeNameRecord(src) ==
    /\ pc = "idle"
    /\ call' = [op |-> "deserialize_name_record", src |-> src]
    /\ Finish(deserialize_name_record(src))
    /\ UNCHANGED <<accounts, largest, aside, loc, fetches>>

DeserializeMainDomain(src) ==
    /\ pc = "idle"
    /\ call' = [op |-> "deserialize_main_domain", src |-> src]
    /\ Finish(deserialize_main_domain(src))
    /\ UNCHANGED <<accounts, largest, aside, loc, fetches>>

FromAccountInfo(src) ==
    /\ pc = "idle"
    /\ call' = [op |-> "from_account_info", src |-> src]
    /\ Finish(from_account_info(src))
    /\ UNCHANGED <<accounts, largest, aside, loc, fetches>>

DeserializeDataString(src) ==
    /\ pc = "idle"
    /\ call' = [op |-> "deserialize_data_string", src |-> src]
    /\ Finish(deserialize_data_string(src))
    /\ UNCHANGED <<accounts, largest, aside, loc, fetches>>

DeserializeReverseLookupDomainName(src) ==
    /\ pc = "idle"
    /\ call' = [op |-> "deserialize_reverse_lookup_domain_name", src |-> src]
    /\ Finish(deserialize_reverse_lookup_domain_name(src))
    /\ UNCHANGED <<accounts, largest, aside, loc, fetches>>

InitDecode ==
    /\ accounts = Empty
    /\ largest = Empty
    /\ call = NoCall
    /\ pc = "idle"
    /\ loc = NoLocals
    /\ fetches = <<>>
    /\ ret = NoRet
    /\ AsideInit

NextDecode ==
    \/ \E src \in NameSlices : DeserializeNameRecord(src)
    \/ \E src \in MainSlices : DeserializeMainDomain(src)
    \/ \E src \in WrapSlices : FromAccountInfo(src)
    \/ \E src \in DataSlices : DeserializeDataString(src)
    \/ \E src \in ReverseSlices : DeserializeReverseLookupDomainName(src)
    \/ Return

SpecDecode == InitDecode /\ [][NextDecode]_vars

\* ==================================================== the domains of a user
\* Memcmp at offset over 32 bytes of a name-service account: the parent at
\* 8..40, the owner at 40..72, the class at 72..104
bytes32_at(data, offset) ==
    CASE offset = 8 -> data.parent_name
      [] offset = 40 -> data.owner
      [] offset = 72 -> data.nclass
      [] OTHER -> <<"unaligned">>

memcmp_matches(data, filter) ==
    /\ data.len >= filter.offset + 32
    /\ bytes32_at(data, filter.offset) = filter.bytes

\* RpcClient::get_program_accounts_with_config: the accounts owned by
\* program_id whose data pass every filter
get_program_accounts_with_config(accs, program_id, filters) ==
    Ok({ k \in DOMAIN accs :
           /\ accs[k].program = program_id
           /\ \A f \in filters : memcmp_matches(accs[k], f) })

\* Memcmp::new_base58_encoded(40, user_address.as_ref())
memcmp_user_mut(user_address) == [offset |-> 8, bytes |-> user_address]

memcmp_user(user_address) == [offset |-> 40, bytes |-> user_address]

\* Memcmp::new_base58_encoded(8, parent_name_account.as_ref())
memcmp_parent(parent_name_account) == [offset |-> 8, bytes |-> parent_name_account]

\* ---- lib.rs: get_all_user_domains
GetAllUserDomains(user_address) ==
    /\ pc = "idle"
    /\ call' = [op |-> "get_all_user_domains", user_address |-> user_address]
    /\ fetches' = <<Request("get_program_accounts_with_config", ANS_PROGRAM_ID)>>
    /\ LET all_accounts ==
               get_program_accounts_with_config(
                   accounts, ANS_PROGRAM_ID, {memcmp_user(user_address)})
       IN  Finish(all_accounts)
    /\ UNCHANGED <<accounts, largest, aside, loc>>

\* ---- lib.rs: get_all_user_domains_from_tld
GetAllUserDomainsFromTld(user_address, tld) ==
    /\ pc = "idle"
    /\ call' = [op |-> "get_all_user_domains_from_tld",
                user_address |-> user_address, tld |-> tld]
    /\ fetches' = <<Request("get_program_accounts_with_config", ANS_PROGRAM_ID)>>
    /\ LET parent_name_account == get_name_parent_from_tld(tld)
           all_tld_accounts ==
               get_program_accounts_with_config(
                   accounts, ANS_PROGRAM_ID,
                   {memcmp_parent(parent_name_account), memcmp_user(user_address)})
       IN  Finish(all_tld_accounts)
    /\ UNCHANGED <<accounts, largest, aside, loc>>

\* ---- the ledger of the listings: the four domains over the labels a and b,
\* each absent, a name account of one of two users, a name-service account
\* cut short before its owner field, or an account of another program
OwnedData(program, len, parent_name, owner) ==
    [ program |-> program, len |-> len, parent_name |-> parent_name, owner |-> owner,
      nclass |-> DefaultPubkey, expires_at |-> 0, valid_byte |-> 0,
      data_len |-> 0, payload |-> <<>> ]

SuffixKey(t) ==
    find_program_address(
        <<get_hashed_name(<<".">> \o t), DefaultPubkey, ORIGIN_TLD_KEY>>, ANS_PROGRAM_ID)
DomainKey(n, t) ==
    find_program_address(
        <<get_hashed_name(n), DefaultPubkey, SuffixKey(t)>>, ANS_PROGRAM_ID)

Holdings ==
    << <<>>,
       <<ANS_PROGRAM_ID, NAME_RECORD_LEN, User1>>,
       <<ANS_PROGRAM_ID, NAME_RECORD_LEN, User2>>,
       <<ANS_PROGRAM_ID, 64, User1>>,
       <<TLD_HOUSE_PROGRAM_ID, NAME_RECORD_LEN, User1>> >>

Holding(n, t, i) ==
    IF Holdings[i] = <<>> THEN Empty
    ELSE DomainKey(n, t) :>
           OwnedData(Holdings[i][1], Holdings[i][2], SuffixKey(t), Holdings[i][3])

InitUser ==
    /\ \E i, j, k, l \in 1..Len(Holdings) :
         accounts = Holding(<<"a">>, <<"a">>, i) @@ Holding(<<"a">>, <<"b">>, j)
                    @@ Holding(<<"b">>, <<"a">>, k) @@ Holding(<<"b">>, <<"b">>, l)
    /\ largest = Empty
    /\ call = NoCall
    /\ pc = "idle"
    /\ loc = NoLocals
    /\ fetches = <<>>
    /\ ret = NoRet
    /\ AsideInit

NextUser ==
    \/ \E u \in {User1, User2, User3} : GetAllUserDomains(u)
    \/ \E u \in {User1, User2, User3}, l \in Labels :
         GetAllUserDomainsFromTld(u, <<".">> \o l)
    \/ Return

SpecUser == InitUser /\ [][NextUser]_vars

\* ==================================================== calls in parallel
\* TldParser holds only rpc_client: Arc<RpcClient>, and every method takes
\* &self. Two calls are in progress at once when one is suspended at an await
\* while the other runs; what a suspended call keeps is its own future: its
\* arguments, its position, its locals, its outcome.
Switch_mut ==
    /\ call' = parked.call
    /\ pc' = parked.pc
    /\ loc' = loc
    /\ fetches' = parked.fetches
    /\ ret' = parked.ret
    /\ parked' = Suspended(call, pc, loc, fetches, ret)
    /\ mixed' = (mixed \/ pc # "idle" \/ parked.pc # "idle")
    /\ UNCHANGED <<accounts, largest, alone, hist>>

Switch ==
    /\ call' = parked.call
    /\ pc' = parked.pc
    /\ loc' = parked.loc
    /\ fetches' = parked.fetches
    /\ ret' = parked.ret
    /\ parked' = Suspended(call, pc, loc, fetches, ret)
    /\ mixed' = (mixed \/ pc # "idle" \/ parked.pc # "idle")
    /\ UNCHANGED <<accounts, largest, alone, hist>>

\* the running call returns to its caller; the outcome of a call that ran
\* with no other call about may be kept for comparison
ReturnParallel ==
    /\ pc = "done"
    /\ pc' = "idle"
    /\ call' = NoCall
    /\ loc' = NoLocals
    /\ fetches' = <<>>
    /\ ret' = NoRet
    /\ \/ alone' = alone
       \/ /\ ~mixed
          /\ alone' = [call |-> call, time_now |-> loc.time_now,
                       fetches |-> fetches, ret |-> ret]
    /\ mixed' = (mixed /\ parked.pc # "idle")
    /\ UNCHANGED <<accounts, largest, parked, hist>>

\* the ledgers of the calls in parallel: a.b held directly and expiring,
\* a.b wrapped with its holder's token account present, undecodable or
\* absent, together with the url record of a.b
ParallelSides ==
    << WrapSides[8].accounts @@ (RegUrlKey :> UrlData)
         @@ (RegNameKey :> NameData(NAME_RECORD_LEN, User1, grace_period + 1, 0)),
       WrapSides[8].accounts @@ (RegUrlKey :> UrlData)
         @@ (RegNameKey :> NameData(NAME_RECORD_LEN, RegWrapKey, 0, 1)),
       WrapSides[6].accounts @@ (RegUrlKey :> UrlData)
         @@ (RegNameKey :> NameData(NAME_RECORD_LEN, RegWrapKey, 0, 1)),
       WrapSides[5].accounts
         @@ (RegNameKey :> NameData(NAME_RECORD_LEN, RegWrapKey, 0, 1)) >>

ParallelDomains == { <<"a", ".", "b">>, <<"b", ".", "a">> }

InitParallel ==
    /\ \E i \in 1..Len(ParallelSides) : accounts = ParallelSides[i]
    /\ largest = WrapSides[8].largest
    /\ call = NoCall
    /\ pc = "idle"
    /\ loc = NoLocals
    /\ fetches = <<>>
    /\ ret = NoRet
    /\ AsideInit

NextParallel ==
    \/ \E d \in ParallelDomains : GetOwnerFromDomainTld(d)
    \/ OwnerNftRecord
    \/ OwnerLargest
    \/ OwnerTokenAccount
    \/ GetNameRecordFromNameAccount(RegNameKey)
    \/ GetRecord(<<"a", ".", "b">>, "Url")
    \/ RecordFetch
    \/ Switch
    \/ ReturnParallel

SpecParallel == InitParallel /\ [][NextParallel]_vars

\* ==================================================== external writers
\* The ledger belongs to other programs: between two fetches of a call the
\* name record may change owner (a transfer, a wrap or an unwrap), the mint
\* may move to another token account, and a token account may be assigned to
\* another owner.
\* the owner of a.b in one ledger state: the owner field of its name record,
\* or for a wrapped name the owner of the token account that holds the mint
OwnerOf(accs, lg) ==
    IF accs[RegNameKey].owner # RegWrapKey
    THEN accs[RegNameKey].owner
    ELSE accs[first_holder(lg[Mint1])].owner

\* the owners of a.b over the ledger states the call in progress has spanned
Spanned(accs, lg) ==
    IF pc = "done" THEN hist
    ELSE IF pc = "idle" THEN {OwnerOf(accs, lg)}
    ELSE hist \cup {OwnerOf(accs, lg)}

WriteNameOwner(owner) ==
    /\ accounts[RegNameKey].owner # owner
    /\ accounts' = [accounts EXCEPT ![RegNameKey].owner = owner]
    /\ hist' = Spanned(accounts', largest)
    /\ UNCHANGED <<largest, call, pc, loc, fetches, ret, parked, alone, mixed>>

WriteHolders(holders) ==
    /\ largest[Mint1] # holders
    /\ largest' = [largest EXCEPT ![Mint1] = holders]
    /\ hist' = Spanned(accounts, largest')
    /\ UNCHANGED <<accounts, call, pc, loc, fetches, ret, parked, alone, mixed>>

WriteTokenOwner(token_account, owner) ==
    /\ accounts[token_account].owner # owner
    /\ accounts' = [accounts EXCEPT ![token_account].owner = owner]
    /\ hist' = Spanned(accounts', largest)
    /\ UNCHANGED <<largest, call, pc, loc, fetches, ret, parked, alone, mixed>>

ReturnWriters ==
    /\ pc = "done"
    /\ pc' = "idle"
    /\ call' = NoCall
    /\ loc' = NoLocals
    /\ fetches' = <<>>
    /\ ret' = NoRet
    /\ hist' = {OwnerOf(accounts, largest)}
    /\ UNCHANGED <<accounts, largest, parked, alone, mixed>>

InitWriters ==
    /\ \E o \in {User1, RegWrapKey} :
         accounts = WrapSides[8].accounts
                    @@ (RegNameKey :> NameData(NAME_RECORD_LEN, o, 0, 1))
    /\ largest = (Mint1 :> <<Ata1>>)
    /\ call = NoCall
    /\ pc = "idle"
    /\ loc = NoLocals
    /\ fetches = <<>>
    /\ ret = NoRet
    /\ parked = NoParked
    /\ alone = NoAlone
    /\ mixed = FALSE
    /\ hist = {OwnerOf(accounts, largest)}

NextWriters ==
    \/ GetOwnerFromDomainTld(<<"a", ".", "b">>)
    \/ OwnerNftRecord
    \/ OwnerLargest
    \/ OwnerTokenAccount
    \/ \E o \in {User1, RegWrapKey} : WriteNameOwner(o)
    \/ \E h \in {<<Ata1>>, <<Ata2>>} : WriteHolders(h)
    \/ \E o \in {User1, User2} : WriteTokenOwner(Ata1, o)
    \/ ReturnWriters

SpecWriters == InitWriters /\ [][NextWriters]_vars

\* ==================================================== properties
\* the labels of a dotted string, counted on its dots
NumLabels(s) == 1 + Cardinality({ i \in 1..Len(s) : s[i] = "." })

DoneOf(op) == pc = "done" /\ call.op = op

NameRecordCalls ==
    {"get_name_record_from_domain_tld", "get_name_record_from_name_account"}

\* the validity rule of the specification: never expiring, or
\* now + 3,888,000 <= expires_at
RuleValid(expires_at, now) == expires_at = 0 \/ now + 3888000 <= expires_at

\* C1: the name record returned by get_name_record_from_domain_tld and
\* get_name_record_from_name_account has is_valid = true exactly when
\* expires_at = 0 or now + 3,888,000 <= expires_at.
C1_ReturnedIsValidFollowsRule ==
    (pc = "done" /\ call.op \in NameRecordCalls /\ ret.status = "ok")
    => (ret.value.is_valid <=> RuleValid(loc.stored.expires_at, loc.time_now))

\* C2: get_owner_from_domain_tld returns the default address whenever the
\* fetched record is invalid (expires_at > 0 and now + 3,888,000 > expires_at),
\* after the one fetch of the name record and without following a wrap; at
\* now + 3,888,000 = expires_at the record counts as valid and its owner is
\* not zeroed.
C2_InvalidOwnerIsZeroed ==
    (call.op = "get_owner_from_domain_tld" /\ loc.decoded)
    => /\ (loc.stored.expires_at > 0
           /\ loc.time_now + 3888000 > loc.stored.expires_at)
          => /\ pc = "done"
             /\ ret.status = "ok"
             /\ ret.value = DefaultPubkey
             /\ ~loc.wrapped
             /\ Len(fetches) = 1
       /\ (loc.stored.expires_at > 0
           /\ loc.time_now + 3888000 = loc.stored.expires_at)
          => /\ loc.name_account.is_valid
             /\ loc.name_account.owner = loc.stored.owner
             /\ (pc = "done" /\ ~loc.wrapped)
                => (ret.status = "ok" /\ ret.value = loc.stored.owner)

C2_Witness ==
    /\ DoneOf("get_owner_from_domain_tld")
    /\ loc.decoded
    /\ loc.stored.expires_at > 0
    /\ loc.time_now + 3888000 > loc.stored.expires_at
    /\ loc.stored.owner = User1
    /\ ret.status = "ok"
    /\ ret.value = DefaultPubkey

\* C3: is_valid of a returned NameRecord is a function of expires_at and the
\* current time only: any other account data with the same expires_at, read
\* at the same time, yields the same is_valid.
C3_IsValidIgnoresOtherBytes ==
    (pc = "done" /\ call.op \in NameRecordCalls /\ ret.status = "ok")
    => \A src \in NameAccounts :
         (/\ src.len >= 112
          /\ src.expires_at = loc.stored.expires_at
          /\ deserialize_name_record(src).status = "ok")
         => name_record_validity(deserialize_name_record(src).value,
                                 loc.time_now).is_valid
            = ret.value.is_valid

\* C4: get_domain_key on a four-label input with record = false fails; it
\* never returns a DomainKeyResult for that input.
C4_FourLabelsWithoutRecordFail ==
    (DoneOf("get_domain_key") /\ NumLabels(call.domain_tld) = 4 /\ ~call.record)
    => ret.status # "ok"

\* C5: get_domain_key on an input of five or more labels fails with the
\* unsupported-depth failure for both values of record; get_record and
\* find_domain_name_records, which put one label before the domain, fail the
\* same way on a domain of four or more labels, with no reader request issued.
C5_TooDeepFailsBeforeAnyFetch ==
    /\ (DoneOf("get_domain_key") /\ NumLabels(call.domain_tld) >= 5)
       => (ret.status = "panic" /\ ret.msg = DEPTH_PANIC)
    /\ (call.op \in {"get_record", "find_domain_name_records"}
        /\ NumLabels(call.domain_tld) + 1 >= 5)
       => /\ pc = "done"
          /\ ret.status = "panic"
          /\ ret.msg = DEPTH_PANIC
          /\ fetches = <<>>

C5_Witness ==
    /\ DoneOf("get_record")
    /\ NumLabels(call.domain_tld) = 4
    /\ ret.status = "panic"
    /\ ret.msg = DEPTH_PANIC
    /\ fetches = <<>>

\* the derivation of the specification: derive(hashed, no class, parent)
derive(hashed, parent) == find_name_account_from_hashed_name(hashed, None, parent)
suffix_address(tld) == derive(get_hashed_name(<<".">> \o tld), ORIGIN_TLD_KEY)
domain_address(name, tld) == derive(get_hashed_name(name), suffix_address(tld))

\* C6: for "sub.name.tld" the leaf is derive(hash("0" + sub), no class,
\* address of name.tld) when record = false and derive(hash("1" + sub), ...)
\* when record = true; the two calls differ in leaf and in hashed value and
\* agree on the parent, with is_sub = true and is_sub_record = false.
C6_ThreeLabelLeaf ==
    \A sub \in Labels, name \in Labels, tld \in Labels :
      (DoneOf("get_domain_key") /\ call.domain_tld = Join(<<sub, name, tld>>))
      => LET prefix == IF call.record THEN <<"1">> ELSE <<"0">>
             other == get_domain_key(call.domain_tld, ~call.record).res
         IN  /\ ret.status = "ok"
             /\ ret.value.hashed = get_hashed_name(prefix \o sub)
             /\ ret.value.pubkey
                = derive(get_hashed_name(prefix \o sub), domain_address(name, tld))
             /\ ret.value.parent = domain_address(name, tld)
             /\ ret.value.is_sub
             /\ ~ret.value.is_sub_record
             /\ other.status = "ok"
             /\ other.value.pubkey # ret.value.pubkey
             /\ other.value.hashed # ret.value.hashed
             /\ other.value.parent = ret.value.parent

C6_Witness ==
    /\ DoneOf("get_domain_key")
    /\ call.domain_tld = Join(<< <<"b">>, <<"a">>, <<"b">> >>)
    /\ call.record
    /\ ret.status = "ok"
    /\ ret.value.hashed = get_hashed_name(<<"1", "b">>)

\* C7: for "multi.sub.name.tld" with record = true the leaf is
\* derive(hash("1" + multi), no class, sub_key) with sub_key =
\* derive(hash(NUL + sub), no class, address of name.tld), is_sub = true and
\* is_sub_record = true; is_sub_record is true for no other input shape.
C7_FourLabelRecordLeaf ==
    /\ \A multi \in Labels, sub \in Labels, name \in Labels, tld \in Labels :
         (/\ DoneOf("get_domain_key")
          /\ call.domain_tld = Join(<<multi, sub, name, tld>>)
          /\ call.record)
         => LET sub_key == derive(get_hashed_name(<<"NUL">> \o sub),
                                  domain_address(name, tld))
            IN  /\ ret.status = "ok"
                /\ ret.value.pubkey = derive(get_hashed_name(<<"1">> \o multi), sub_key)
                /\ ret.value.hashed = get_hashed_name(<<"1">> \o multi)
                /\ ret.value.is_sub
                /\ ret.value.is_sub_record
    /\ (DoneOf("get_domain_key") /\ ret.status = "ok" /\ ret.value.is_sub_record)
       => (NumLabels(call.domain_tld) = 4 /\ call.record)

C7_Witness ==
    /\ DoneOf("get_domain_key")
    /\ call.domain_tld = Join(<< <<"a">>, <<"b">>, <<"a">>, <<"b">> >>)
    /\ call.record
    /\ ret.status = "ok"
    /\ ret.value.is_sub_record

\* C8: every derivation that reaches a top-level suffix derives it as
\* derive(hash("." + tld), no class, parent = ORIGIN_TLD_KEY), never with an
\* absent (all-zero) parent: get_domain_key for 2-, 3- and 4-label inputs,
\* get_name_parent_from_tld, and the calls that use it, all yield the same
\* suffix address for the same tld.
C8_SuffixRootedAtOrigin ==
    /\ \A n \in 2..4 : \A ls \in LabelSeqs(n) :
         (/\ DoneOf("get_domain_key")
          /\ call.domain_tld = Join(ls)
          /\ (n = 4 => call.record))
         => /\ ret.status = "ok"
            /\ loc.parent_name_account = suffix_address(ls[n])
            /\ loc.parent_name_account = get_name_parent_from_tld(<<".">> \o ls[n])
            /\ loc.parent_name_account
               # find_name_account_from_hashed_name(
                     get_hashed_name(<<".">> \o ls[n]), None, None)
    /\ (DoneOf("get_domain_key") /\ ret.status = "ok")
       => \E l \in Labels : loc.parent_name_account = suffix_address(l)
    /\ \A l \in Labels :
         (DoneOf("get_name_parent_from_tld") /\ call.tld = <<".">> \o l)
         => ret.value = suffix_address(l)
    /\ (call.op \in NameRecordCalls \cup {"get_owner_from_domain_tld"}
        /\ loc.tld # <<>>)
       => \E l \in Labels : /\ loc.tld = <<".">> \o l
                            /\ loc.parent_name_account = suffix_address(l)

C8_Witness ==
    /\ DoneOf("get_domain_key")
    /\ call.domain_tld = Join(<< <<"a">>, <<"b">>, <<"a">>, <<"b">> >>)
    /\ call.record
    /\ ret.status = "ok"
    /\ loc.parent_name_account = suffix_address(<<"b">>)
    /\ get_name_parent_from_tld(<<".", "b">>) = loc.parent_name_account

\* C9: when a valid name record's owner field equals the derived wrap-record
\* address, get_owner_from_domain_tld returns the owner field of the token
\* account that is the largest holder of the wrap record's mint, and never
\* the wrap-record address itself.
C9_WrappedReturnsLargestHolder ==
    (DoneOf("get_owner_from_domain_tld") /\ loc.wrapped /\ ret.status = "ok")
    => /\ ret.value # loc.nft_record_key
       /\ loc.nft_mint_account \in DOMAIN largest
       /\ largest[loc.nft_mint_account] # <<>>
       /\ largest[loc.nft_mint_account][1] \in DOMAIN accounts
       /\ ret.value = accounts[largest[loc.nft_mint_account][1]].owner

\* C10: for a wrapped domain, if the wrap record, the largest-holder query or
\* the holder's token account cannot be fetched or decoded,
\* get_owner_from_domain_tld does not return successfully.
C10_WrapFailureIsAnError ==
    (DoneOf("get_owner_from_domain_tld") /\ loc.wrapped /\ ~loc.unpacked)
    => ret.status # "ok"

\* C11: when the fetched name record is valid and its owner differs from the
\* wrap-record address derived for the domain, get_owner_from_domain_tld
\* returns the owner stored in the record, having issued the one fetch of
\* the name record and no other.
C11_UnwrappedOwnerIsStoredOwner ==
    (call.op = "get_owner_from_domain_tld" /\ loc.decoded
     /\ RuleValid(loc.stored.expires_at, loc.time_now)
     /\ loc.stored.owner #
          find_nft_record(loc.name_account_key,
                          find_name_house(find_tld_house(loc.tld))))
    => /\ pc = "done"
       /\ ret.status = "ok"
       /\ ret.value = loc.stored.owner
       /\ fetches = <<Request("get_account_data", loc.name_account_key)>>

C11_Witness ==
    /\ DoneOf("get_owner_from_domain_tld")
    /\ loc.decoded
    /\ loc.stored.expires_at > 0
    /\ RuleValid(loc.stored.expires_at, loc.time_now)
    /\ ret.value = User1
    /\ Len(fetches) = 1

\* C12: round trip. For labels n and t, with A = get_domain_key(n.t).pubkey:
\* when the ledger holds, at the address derived from the hash of the string
\* form of A with class find_tld_house("." + t) and no parent, a
\* reverse-lookup record whose bytes after the header are exactly n, the call
\* reverse_lookup_name_account_with_known_name_class(A, find_tld_house("." + t))
\* returns n.
C12_ReverseOfResolveRecoversLabel ==
    \A n \in Labels, t \in Labels :
      LET A == get_domain_key(n \o <<".">> \o t, FALSE).res.value.pubkey
          class == find_program_address(<<PREFIX, <<".">> \o t>>, TLD_HOUSE_PROGRAM_ID)
          at == find_program_address(
                    <<hashv(<<HASH_PREFIX \o to_string(A)>>), class, DefaultPubkey>>,
                    ANS_PROGRAM_ID)
      IN  (/\ DoneOf("reverse_lookup_name_account_with_known_name_class")
           /\ call.name_account = A
           /\ call.parent_account_owner = class
           /\ at \in DOMAIN accounts
           /\ accounts[at].len = NAME_RECORD_LEN + Len(n)
           /\ accounts[at].tail = n)
          => ret = Ok(n)

C12_Witness ==
    /\ DoneOf("reverse_lookup_name_account_with_known_name_class")
    /\ call.name_account = RegNameKey
    /\ call.parent_account_owner = RegHouseKey
    /\ RegReverseKey \in DOMAIN accounts
    /\ accounts[RegReverseKey].tail = <<"a">>
    /\ ret = Ok(<<"a">>)

\* C13: a successful fast-path reverse lookup issues one fetch, and a
\* successful slow-path reverse lookup of the same name account issues
\* exactly two more.
C13_SlowPathTwoMoreFetches ==
    /\ (DoneOf("reverse_lookup_name_account_with_known_name_class")
        /\ ret.status = "ok")
       => Len(fetches) = 1
    /\ (DoneOf("reverse_lookup_name_account") /\ ret.status = "ok")
       => Len(fetches) = 1 + 2

\* C14: on one ledger state, once the slow path reverse_lookup_name_account(a)
\* has read the suffix t from the house account of a's parent record, it
\* fetches the reverse-lookup address that the fast path fetches for
\* (a, find_tld_house(t)) and ends with the outcome the fast path has there:
\* the bytes from offset 200 to the end of the buffer.
C14_SlowPathEqualsFastPath ==
    (DoneOf("reverse_lookup_name_account") /\ Len(fetches) = 4)
    => LET class == find_program_address(<<PREFIX, loc.tld>>, TLD_HOUSE_PROGRAM_ID)
       IN  /\ fetches[4] =
                Request("get_account_data",
                        find_program_address(
                            << hashv(<<HASH_PREFIX \o to_string(call.name_account)>>),
                               class, DefaultPubkey >>,
                            ANS_PROGRAM_ID))
           /\ ret = reverse_lookup_with_known_name_class(
                        accounts, call.name_account, class)

C14_Witness ==
    /\ DoneOf("reverse_lookup_name_account")
    /\ Len(fetches) = 4
    /\ loc.tld = RegTld
    /\ accounts[RegHouseKey].tld_len = 4
    /\ ret = Ok(<<"a", "NUL", "NUL">>)

\* the bytes a decoder needs before any variable-length content: the
\* discriminator and the fixed-width fields, and for the length-prefixed
\* strings the bytes their length prefix announces
TooShort(op, src) ==
    CASE op = "deserialize_name_record" -> src.len < 8 + 32 + 32 + 32 + 8 + 1
      [] op = "deserialize_main_domain" ->
            \/ src.len < 8 + 32 + 4
            \/ src.len < 8 + 32 + 4 + src.tld_len + 4
            \/ src.len < 8 + 32 + 4 + src.tld_len + 4 + src.domain_len
      [] op = "from_account_info" -> src.len < 8 + 1 + 1 + 32 + 32 + 32 + 32
      [] op = "deserialize_data_string" ->
            \/ src.len < 200 + 4
            \/ src.len < 200 + 4 + src.data_len
      [] op = "deserialize_reverse_lookup_domain_name" -> src.len < 200
      [] OTHER -> FALSE

\* C15: every decoder given a byte slice shorter than the fixed-width prefix
\* it needs, or whose length prefix points past the end of the buffer,
\* returns an Err value and does not panic.
C15_ShortSliceIsAnErr ==
    (pc = "done" /\ "src" \in DOMAIN call /\ TooShort(call.op, call.src))
    => ret.status = "err"

StringCalls ==
    { "get_record", "get_tld_from_parent_account",
      "reverse_lookup_name_account_with_known_name_class",
      "reverse_lookup_name_account" }

\* C16: no string returned from account bytes (record data, the label of
\* either reverse lookup, the suffix of get_tld_from_parent_account) ends
\* with a NUL byte.
C16_NoTrailingNul ==
    (pc = "done" /\ call.op \in StringCalls /\ ret.status = "ok" /\ ret.value # <<>>)
    => ret.value[Len(ret.value)] # "NUL"

\* the name-service accounts whose bytes 40..72 are u
OwnedBy(u) ==
    { k \in DOMAIN accounts :
        /\ accounts[k].program = ANS_PROGRAM_ID
        /\ accounts[k].len >= 72
        /\ accounts[k].owner = u }

\* C17: get_all_user_domains(u) returns exactly the addresses of the
\* name-service-program accounts whose bytes at 40..72 equal u, each of which
\* decodes to a name record with owner u; get_all_user_domains_from_tld(u, t)
\* returns exactly those of them whose bytes at 8..40 equal
\* get_name_parent_from_tld(t), a subset of the former.
C17_ListingsFilterOnOwnerAndParent ==
    /\ DoneOf("get_all_user_domains")
       => /\ ret = Ok(OwnedBy(call.user_address))
          /\ \A k \in ret.value :
               deserialize_name_record(accounts[k]).value.owner = call.user_address
    /\ DoneOf("get_all_user_domains_from_tld")
       => /\ ret = Ok({ k \in OwnedBy(call.user_address) :
                          accounts[k].parent_name = suffix_address(Tail(call.tld)) })
          /\ ret.value \subseteq OwnedBy(call.user_address)

C17_Witness ==
    /\ DoneOf("get_all_user_domains_from_tld")
    /\ Cardinality(OwnedBy(call.user_address)) = 3
    /\ Cardinality(ret.value) = 2
    /\ Cardinality(DOMAIN accounts) = 4

\* C20: for a domain string of two or three labels, the name record that
\* get_owner_from_domain_tld and get_name_record_from_domain_tld fetch is the
\* account at get_domain_key(domain_tld, false).pubkey.
C20_ResolversFetchTheDomainKey ==
    (/\ call.op \in {"get_owner_from_domain_tld", "get_name_record_from_domain_tld"}
     /\ NumLabels(call.domain_tld) \in {2, 3}
     /\ fetches # <<>>)
    => fetches[1] =
         Request("get_account_data",
                 get_domain_key(call.domain_tld, FALSE).res.value.pubkey)

\* a finished call has the outcome and the fetches of the same call, with
\* the same clock reading, run with no other call about
AsAlone(c) ==
    (/\ c.pc = "done"
     /\ alone.call.op = c.call.op
     /\ alone.call = c.call
     /\ alone.time_now = c.loc.time_now)
    => /\ c.ret = alone.ret
       /\ c.fetches = alone.fetches

\* C18: over an unchanging ledger, however two calls interleave at their
\* awaits, each ends with the outcome it has when run alone; a step of the
\* running call leaves the suspended call as it was, and no step writes to
\* the ledger.
C18_ParallelCallsAreIndependent ==
    /\ [](AsAlone(Suspended(call, pc, loc, fetches, ret)) /\ AsAlone(parked))
    /\ [][parked' = parked \/ parked' = Suspended(call, pc, loc, fetches, ret)]_vars
    /\ [][accounts' = accounts /\ largest' = largest]_vars

C18_Witness ==
    /\ DoneOf("get_owner_from_domain_tld")
    /\ mixed
    /\ Len(fetches) = 4
    /\ parked.pc = "owner_largest"
    /\ alone.call = call
    /\ ret = Ok(User2)

\* C19: the address get_owner_from_domain_tld returns is the owner of the
\* domain in one of the ledger states that existed between the start of the
\* call and its return, whatever external writers do between its fetches.
C19_ReturnedOwnerWasTheOwner ==
    (DoneOf("get_owner_from_domain_tld") /\ ret.status = "ok")
    => ret.value \in hist

\* C21: every DomainKeyResult returned by get_domain_key has parent present
\* exactly when is_sub is true, is_sub_record only with is_sub, and, whenever
\* parent is present, pubkey = find_name_account_from_hashed_name(hashed, no
\* class, parent).
C21_ResultRecomputesFromItsFields ==
    (DoneOf("get_domain_key") /\ ret.status = "ok")
    => /\ (ret.value.parent # None) <=> ret.value.is_sub
       /\ ret.value.is_sub_record => ret.value.is_sub
       /\ (ret.value.parent # None)
          => ret.value.pubkey
             = find_program_address(
                   <<ret.value.hashed, DefaultPubkey, ret.value.parent>>,
                   ANS_PROGRAM_ID)

\* C21 as the code has it: parent is present exactly when is_sub is true and
\* is_sub_record comes only with is_sub; parent is the address of the domain
\* the labels hang under. For a subdomain (is_sub_record = false) pubkey is
\* derived from hashed directly under parent; for the record under a
\* subdomain (is_sub_record = true) pubkey is derived from hashed under the
\* intermediate key of the second label, which is derived under parent, and
\* not under parent itself.
C21_ResultIsRootedAtItsParent ==
    (DoneOf("get_domain_key") /\ ret.status = "ok")
    => /\ (ret.value.parent # None) <=> ret.value.is_sub
       /\ ret.value.is_sub_record => ret.value.is_sub
       /\ (ret.value.is_sub /\ ~ret.value.is_sub_record)
          => ret.value.pubkey
             = find_program_address(
                   <<ret.value.hashed, DefaultPubkey, ret.value.parent>>,
                   ANS_PROGRAM_ID)
       /\ ret.value.is_sub_record
          => LET sub_key ==
                     find_program_address(
                         << hashv(<<HASH_PREFIX \o <<"NUL">>
                                    \o split(call.domain_tld)[2]>>),
                            DefaultPubkey, ret.value.parent >>,
                         ANS_PROGRAM_ID)
             IN  /\ ret.value.pubkey
                    = find_program_address(
                          <<ret.value.hashed, DefaultPubkey, sub_key>>, ANS_PROGRAM_ID)
                 /\ ret.value.pubkey
                    # find_program_address(
                          <<ret.value.hashed, DefaultPubkey, ret.value.parent>>,
                          ANS_PROGRAM_ID)

C21_Witness ==
    /\ DoneOf("get_domain_key")
    /\ ret.status = "ok"
    /\ ret.value.is_sub_record
    /\ ret.value.parent = RegNameKey
    /\ NumLabels(call.domain_tld) = 4
====
